---- MODULE Spec2Model ----
(***************************************************************************)
(* A model of trident's SpectrumGenerator (src/trident/spectrum_generator  *)
(* .py): the instrument configuration, the template interpolation, the     *)
(* noise injection, the LSF convolution and the spectrum persistence.      *)
(*                                                                         *)
(* Numbers.  Wavelengths (Angstrom) and fluxes are exact rationals <<n,d>> *)
(* with d > 0, kept in lowest terms.  The code computes in IEEE doubles;   *)
(* rounding is not modelled, so "equal" below means equal as real numbers. *)
(* Arrays are sequences; Python index k is position k+1 of the sequence.   *)
(***************************************************************************)
EXTENDS Integers, Sequences, FiniteSets, TLC

VARIABLES
    instrument,   \* self.instrument
    lambda_bins,  \* self.lambda_bins, as the arguments of its np.linspace
    flux_field,   \* self.flux_field: None until a stage creates it
    rng,          \* the state of numpy's process-wide random generator
    files,        \* the file system: filename -> what a writer left there
    snapshot,     \* history: filename -> (lambda_bins, flux_field) at the last save
    noise_log,    \* history: the seeded add_gaussian_noise calls that returned
    last,         \* the last operation, its arguments and its outcome
    steps,        \* number of operations performed so far
    probe,        \* one evaluation of a template routine (SpecTemplate)
    ms            \* one call of make_spectrum: its locals, the dataset, the calls made

vars == <<instrument, lambda_bins, flux_field, rng, files, snapshot,
          noise_log, last, steps, probe, ms>>

None == "None"

----------------------------------------------------------------------------
(* Bounds of the exploration *)

\* operations in one run of the generator
MaxSteps == 3
\* longest array a stage may create (a preset grid has 30000 bins)
MaxBins == 3
\* rows of a template table
MaxRows == 3
\* lines selected for one make_spectrum call
MaxLines == 3

----------------------------------------------------------------------------
(* Exact rational arithmetic standing for the float arithmetic of the code *)

Abs(n) == IF n < 0 THEN -n ELSE n

RECURSIVE GCD(_, _)
GCD(a, b) == IF b = 0 THEN a ELSE GCD(b, a % b)

LCM(a, b) == (a \div GCD(a, b)) * b

Rat(n, d) ==
    LET g == GCD(Abs(n), d)
    IN  IF n = 0 THEN <<0, 1>> ELSE <<n \div g, d \div g>>

Zero == Rat(0, 1)
One == Rat(1, 1)

RAdd(a, b) ==
    LET d == LCM(a[2], b[2])
    IN  Rat(a[1] * (d \div a[2]) + b[1] * (d \div b[2]), d)

RNeg(a) == <<-a[1], a[2]>>

RSub(a, b) == RAdd(a, RNeg(b))

RMul(a, b) ==
    LET g1 == GCD(Abs(a[1]), b[2])
        g2 == GCD(Abs(b[1]), a[2])
    IN  IF a[1] = 0 \/ b[1] = 0 THEN Zero
        ELSE Rat((a[1] \div g1) * (b[1] \div g2), (a[2] \div g2) * (b[2] \div g1))

RInv(a) == IF a[1] > 0 THEN <<a[2], a[1]>> ELSE <<-a[2], -a[1]>>

RDiv(a, b) == RMul(a, RInv(b))

RLe(a, b) ==
    LET d == LCM(a[2], b[2])
    IN  a[1] * (d \div a[2]) <= b[1] * (d \div b[2])

RLt(a, b) == RLe(a, b) /\ a # b

----------------------------------------------------------------------------
(* Template interpolation: _get_qso_spectrum and _get_milky_way_foreground, *)
(* element by element (the code vectorises over self.lambda_bins).          *)
(* A table `data` is the result of np.loadtxt: a sequence of rows <<l, f>>. *)

\* np.digitize(x, bins), bins increasing, right=False: the i with
\* bins[i-1] <= x < bins[i], which is the number of bins <= x.
digitize(x, bins) == Cardinality({i \in 1..Len(bins) : RLe(bins[i], x)})

\* np.clip(index, lo, hi) = minimum(maximum(index, lo), hi)
clip(index, lo, hi) ==
    LET m == IF index < lo THEN lo ELSE index
    IN  IF m > hi THEN hi ELSE m

shift_lambda_additive(l, redshift) == RAdd(l, redshift)

\* qso_lambda += qso_lambda * redshift
shift_lambda(l, redshift) == RAdd(l, RMul(l, redshift))

template_lambda(data, redshift) ==
    [i \in 1..Len(data) |-> shift_lambda(data[i][1], redshift)]

template_flux(data) == [i \in 1..Len(data) |-> data[i][2]]

\* index = np.digitize(...); np.clip(index, 1, size - 1, out=index)
template_index(lam, w) == clip(digitize(w, lam), 1, Len(lam) - 1)

interpolate_wrong_anchor(lam, flux, index, w) ==
    LET slope == RDiv(RSub(flux[index + 1], flux[index]),
                      RSub(lam[index + 1], lam[index]))
    IN  RAdd(RMul(slope, RSub(w, lam[index])), flux[index + 1])

\* slope = (flux[index] - flux[index-1]) / (lam[index] - lam[index-1])
\* my_flux = slope * (w - lam[index]) + flux[index]
interpolate(lam, flux, index, w) ==
    LET slope == RDiv(RSub(flux[index + 1], flux[index]),
                      RSub(lam[index + 1], lam[index]))
    IN  RAdd(RMul(slope, RSub(w, lam[index + 1])), flux[index + 1])

_get_qso_spectrum(data, redshift, w) ==
    LET lam == template_lambda(data, redshift)
    IN  interpolate(lam, template_flux(data), template_index(lam, w), w)

\* the bound above which the Milky-Way curve is set to 1: 1799.9444
MW_limit == Rat(17999444, 10000)

mw_no_limit(data, w) ==
    LET lam == template_lambda(data, Zero)
    IN  interpolate(lam, template_flux(data), template_index(lam, w), w)

\* my_flux[self.lambda_bins > 1799.9444] = 1.0
_get_milky_way_foreground(data, w) ==
    LET lam == template_lambda(data, Zero)
        my_flux == interpolate(lam, template_flux(data), template_index(lam, w), w)
    IN  IF RLt(MW_limit, w) THEN One ELSE my_flux

----------------------------------------------------------------------------
(* Instruments.  The Instrument class lives in instrument.py; it is         *)
(* modelled from the specification's data model: a wavelength range, a bin  *)
(* count or a bin width (the other one computed), an optional LSF kernel.   *)

NoneInt == -1          \* None where the code expects a number
NoArray == <<>>        \* None where the code expects an array

Instrument(lambda_min, lambda_max, n_lambda, dlambda, lsf_kernel, name) ==
    [name |-> name,
     lambda_min |-> lambda_min,
     lambda_max |-> lambda_max,
     n_lambda |-> IF n_lambda # NoneInt THEN n_lambda
                  ELSE LET q == RDiv(RSub(lambda_max, lambda_min), dlambda)
                       IN  q[1] \div q[2],
     dlambda |-> IF n_lambda = NoneInt THEN dlambda
                 ELSE RDiv(RSub(lambda_max, lambda_min), Rat(n_lambda, 1)),
     lsf_kernel |-> lsf_kernel]

valid_instruments ==
    [n \in {"COS", "HIRES", "UVES", "MODS", "SDSS"} |->
        IF n = "COS"
        THEN Instrument(Rat(1150, 1), Rat(1450, 1), NoneInt, Rat(1, 100),
                        "avg_COS.txt", "COS")
        ELSE Instrument(Rat(1200, 1), Rat(1400, 1), NoneInt, Rat(1, 100),
                        None, n)]

\* AbsorptionSpectrum.__init__: lambda_bins = np.linspace(lambda_min,
\* lambda_max, n_lambda); the array is kept as these three arguments.
linspace(start, stop, num) == [start |-> start, stop |-> stop, num |-> num]

\* element k (Python index) of a linspace array
bin_at(lb, k) ==
    IF lb.num = 1 THEN lb.start
    ELSE RAdd(lb.start,
              RMul(Rat(k, 1), RDiv(RSub(lb.stop, lb.start), Rat(lb.num - 1, 1))))

\* arguments of set_instrument: isinstance() is the tag
Str(s) == [type |-> "str", value |-> s]
Obj(i) == [type |-> "Instrument", value |-> i]
Other(x) == [type |-> "other", value |-> x]

\* custom instruments a caller may build (bounded)
CustomInstruments ==
    {Instrument(Rat(1, 1), Rat(n, 1), n, NoneInt, None, "Custom") : n \in 2..MaxBins}
    \cup {Instrument(Rat(1799, 1), Rat(1801, 1), 3, NoneInt, "k3.txt", "Custom")}

\* what the constructor accepts: an instrument (None, a name, an object)
\* and, when it is None, an optional custom range
NoRange == [given |-> FALSE, lambda_min |-> Zero, lambda_max |-> Zero,
            n_lambda |-> NoneInt, lsf_kernel |-> None]

CustomRanges ==
    {[given |-> TRUE, lambda_min |-> i.lambda_min, lambda_max |-> i.lambda_max,
      n_lambda |-> i.n_lambda, lsf_kernel |-> i.lsf_kernel] : i \in CustomInstruments}

----------------------------------------------------------------------------
(* Files.  A filename is its sequence of characters. *)

endswith(filename, suffix) ==
    /\ Len(filename) >= Len(suffix)
    /\ SubSeq(filename, Len(filename) - Len(suffix) + 1, Len(filename)) = suffix

DotH5 == <<".", "h", "5">>
DotFits == <<".", "f", "i", "t", "s">>

SaveNames ==
    {<<"s", ".", "h", "5">>, <<"s", ".", "f", "i", "t", "s">>, <<"s", ".", "t", "x", "t">>}

Filenames == SaveNames \cup {<<"o", ".", "h", "5">>, <<"h", "5">>}

Formats == {None, "HDF5", "FITS", "ASCII", "hdf5"}

Absent == [writer |-> "absent", wavelength |-> linspace(Zero, Zero, 0), flux |-> NoArray]

\* a spectrum written by an earlier session
OldFile == [writer |-> "HDF5", wavelength |-> linspace(Rat(1, 1), Rat(2, 1), 2),
            flux |-> <<One, Rat(1, 2)>>]

InitialFiles ==
    [f \in Filenames |-> IF f = <<"o", ".", "h", "5">> THEN OldFile ELSE Absent]

----------------------------------------------------------------------------
(* The process-wide random generator.  numpy's Mersenne Twister is          *)
(* abstracted to a counter: a state yields one deviate and a next state.    *)

\* number of generator states
RngStates == 4

\* np.random.seed(seed) with an integer seed
seed_state(seed) == seed % RngStates

\* one standard normal deviate drawn in state s, and the state after it
deviate(s) == Rat(s - 1, 1)
rng_next(s) == (s + 1) % RngStates

\* np.random.normal(loc=0.0, scale=scale, size=n) drawn from state s
normal(s, scale, n) == [i \in 1..n |-> RMul(scale, deviate((s + i - 1) % RngStates))]
rng_after(s, n) == (s + n) % RngStates

----------------------------------------------------------------------------
(* The generator *)

NoProbe == [fn |-> "none", data |-> <<>>, redshift |-> Zero, w |-> Zero,
            index |-> 0, value |-> Zero]

\* no make_spectrum call yet: the locals on_ion and my_lev are unbound
NoCall == [status |-> "idle", error |-> None, fields |-> {},
           derived_field_list |-> {}, active_lines |-> <<>>, pos |-> 0,
           on_ion |-> <<>>, my_lev |-> NoneInt, failed |-> {}, calls |-> <<>>]

Started == [op |-> "__init__", ok |-> TRUE, args |-> <<>>, out |-> <<>>]

\* set_instrument: does the argument pass the isinstance / membership tests
set_instrument_accepts(arg) ==
    \/ arg.type = "str" /\ arg.value \in DOMAIN valid_instruments
    \/ arg.type = "Instrument"

set_instrument_value(arg) ==
    IF arg.type = "str" THEN valid_instruments[arg.value] ELSE arg.value

\* __init__: choose the instrument, set it, build the grid of the parent class
ctor_instrument(arg, range) ==
    IF arg.type = "other" /\ arg.value = None /\ ~range.given THEN Str("COS")
    ELSE IF arg.type = "other" /\ arg.value = None
         THEN Obj(Instrument(range.lambda_min, range.lambda_max, range.n_lambda,
                             NoneInt, range.lsf_kernel, "Custom"))
         ELSE arg

\* the constructor returns only if set_instrument accepts the instrument
__init__(arg, range) ==
    LET a == ctor_instrument(arg, range)
    IN  /\ set_instrument_accepts(a)
        /\ instrument = set_instrument_value(a)
        /\ lambda_bins = linspace(instrument.lambda_min, instrument.lambda_max,
                                  instrument.n_lambda)
        /\ flux_field = NoArray

Init ==
    /\ \/ \E range \in {NoRange} \cup CustomRanges : __init__(Other(None), range)
       \/ \E s \in {"COS", "HIRES", "bogus"} : __init__(Str(s), NoRange)
       \/ \E i \in CustomInstruments : __init__(Obj(i), NoRange)
    /\ rng = 0
    /\ files = InitialFiles
    /\ snapshot = InitialFiles
    /\ noise_log = {}
    /\ last = Started
    /\ steps = 0
    /\ probe = NoProbe
    /\ ms = NoCall

set_instrument_falls_back(arg) ==
    /\ steps < MaxSteps
    /\ instrument' = IF set_instrument_accepts(arg) THEN set_instrument_value(arg)
                     ELSE valid_instruments["COS"]
    /\ last' = [op |-> "set_instrument", ok |-> TRUE, args |-> arg, out |-> <<>>]
    /\ steps' = steps + 1
    /\ UNCHANGED <<lambda_bins, flux_field, rng, files, snapshot, noise_log, probe, ms>>

set_instrument(arg) ==
    /\ steps < MaxSteps
    /\ instrument' = IF set_instrument_accepts(arg) THEN set_instrument_value(arg)
                     ELSE instrument
    /\ last' = [op |-> "set_instrument", ok |-> set_instrument_accepts(arg),
                args |-> arg, out |-> <<>>]
    /\ steps' = steps + 1
    /\ UNCHANGED <<lambda_bins, flux_field, rng, files, snapshot, noise_log, probe, ms>>

\* make_flat_spectrum: np.ones(self.lambda_bins.size)
make_flat_spectrum ==
    /\ steps < MaxSteps
    /\ lambda_bins.num <= MaxBins
    /\ flux_field' = [i \in 1..lambda_bins.num |-> One]
    /\ last' = [op |-> "make_flat_spectrum", ok |-> TRUE, args |-> <<>>,
                out |-> flux_field']
    /\ steps' = steps + 1
    /\ UNCHANGED <<instrument, lambda_bins, rng, files, snapshot, noise_log, probe, ms>>

\* the template files (np.loadtxt); None is the file shipped with the package
qso_template(filename) ==
    <<<<Rat(1, 1), Rat(1, 1)>>, <<Rat(2, 1), Rat(2, 1)>>, <<Rat(3, 1), Rat(2, 1)>>>>

mw_template(filename) ==
    <<<<Rat(1, 1), Rat(1, 2)>>, <<Rat(2, 1), Rat(1, 1)>>, <<Rat(3, 1), Rat(1, 1)>>>>

\* flux_field *= curve, element-wise; fails unless the shapes agree
multiply_in_place(target, curve) == [i \in 1..Len(target) |-> RMul(target[i], curve[i])]

\* a separate array a caller may pass as flux_field / out
CallerArrays == {<<One, One>>}

\* add_qso_spectrum(flux_field, redshift, filename)
add_qso_spectrum(arr, redshift, filename) ==
    LET target == IF arr = NoArray THEN flux_field ELSE arr
        ok == target # NoArray /\ Len(target) = lambda_bins.num
        curve == [i \in 1..lambda_bins.num |->
                    _get_qso_spectrum(qso_template(filename), redshift,
                                      bin_at(lambda_bins, i - 1))]
        result == IF ok THEN multiply_in_place(target, curve) ELSE target
    IN  /\ steps < MaxSteps
        /\ lambda_bins.num <= MaxBins
        /\ flux_field' = IF arr = NoArray THEN result ELSE flux_field
        /\ last' = [op |-> "add_qso_spectrum", ok |-> ok,
                    args |-> <<arr, redshift, filename>>, out |-> result]
        /\ steps' = steps + 1
        /\ UNCHANGED <<instrument, lambda_bins, rng, files, snapshot, noise_log, probe, ms>>

\* add_milky_way_foreground(flux_field, filename)
add_milky_way_foreground(arr, filename) ==
    LET target == IF arr = NoArray THEN flux_field ELSE arr
        ok == target # NoArray /\ Len(target) = lambda_bins.num
        curve == [i \in 1..lambda_bins.num |->
                    _get_milky_way_foreground(mw_template(filename),
                                              bin_at(lambda_bins, i - 1))]
        result == IF ok THEN multiply_in_place(target, curve) ELSE target
    IN  /\ steps < MaxSteps
        /\ lambda_bins.num <= MaxBins
        /\ flux_field' = IF arr = NoArray THEN result ELSE flux_field
        /\ last' = [op |-> "add_milky_way_foreground", ok |-> ok,
                    args |-> <<arr, filename>>, out |-> result]
        /\ steps' = steps + 1
        /\ UNCHANGED <<instrument, lambda_bins, rng, files, snapshot, noise_log, probe, ms>>

\* np.random.seed(seed): an integer seed fixes the state, None takes it from
\* the operating system's entropy; the state before the call is discarded
seed_ignored(current, seed, entropy) == current

reseed(current, seed, entropy) ==
    IF seed = NoneInt THEN entropy ELSE seed_state(seed)

\* np.add(out, noise, out=out): the noise is broadcast onto out
noise_fits(target, n) == target # NoArray /\ (n = Len(target) \/ n = 1)

add_noise(target, noise) ==
    [i \in 1..Len(target) |->
        RAdd(target[i], IF Len(noise) = 1 THEN noise[1] ELSE noise[i])]

\* add_gaussian_noise(snr, n_bins, out, seed); entropy is what the operating
\* system would hand to an unseeded generator
add_gaussian_noise(snr, n_bins, out, seed, entropy) ==
    LET state == reseed(rng, seed, entropy)
        n == IF n_bins = NoneInt THEN lambda_bins.num ELSE n_bins
        target == IF out = NoArray THEN flux_field ELSE out
        ok == noise_fits(target, n)
        result == IF ok THEN add_noise(target, normal(state, Rat(1, snr), n))
                  ELSE target
    IN  /\ steps < MaxSteps
        /\ rng' = rng_after(state, n)
        /\ flux_field' = IF out = NoArray THEN result ELSE flux_field
        /\ noise_log' = IF ok /\ seed # NoneInt
                        THEN noise_log \cup {[seed |-> seed, snr |-> snr,
                                              n_bins |-> n_bins, input |-> target,
                                              output |-> result, before |-> rng]}
                        ELSE noise_log
        /\ last' = [op |-> "add_gaussian_noise", ok |-> ok,
                    args |-> <<snr, n_bins, out, seed>>, out |-> result]
        /\ steps' = steps + 1
        /\ UNCHANGED <<instrument, lambda_bins, files, snapshot, probe, ms>>

\* a random draw made elsewhere in the program from the same generator
random_draw ==
    /\ steps < MaxSteps
    /\ rng' = rng_next(rng)
    /\ last' = [op |-> "random_draw", ok |-> TRUE, args |-> <<>>,
                out |-> <<deviate(rng)>>]
    /\ steps' = steps + 1
    /\ UNCHANGED <<instrument, lambda_bins, flux_field, files, snapshot,
                   noise_log, probe, ms>>

----------------------------------------------------------------------------
(* The line spread function.  The LSF class lives in lsf.py; it is modelled *)
(* from the specification: a kernel is read verbatim from a file or built   *)
(* from a named function and a width; an unknown function is an error.      *)
(* The "gaussian" function needs exp() and is left out of the inputs.       *)

kernel_file(filename) ==
    IF filename = "k1.txt" THEN <<One>>
    ELSE IF filename = "k3.txt" THEN <<Rat(1, 4), Rat(1, 2), Rat(1, 4)>>
    ELSE IF filename = "avg_COS.txt"
         THEN <<Rat(1, 8), Rat(1, 4), Rat(1, 4), Rat(1, 4), Rat(1, 8)>>
         ELSE NoArray

\* LSF(function, width, filename).kernel; NoArray when the LSF cannot be built
LSF(function, width, filename) ==
    IF filename # None THEN kernel_file(filename)
    ELSE IF function = "boxcar" /\ width > 0 THEN [i \in 1..width |-> Rat(1, width)]
         ELSE NoArray

RECURSIVE RSum(_)
RSum(seq) == IF seq = <<>> THEN Zero ELSE RAdd(Head(seq), RSum(Tail(seq)))

Max(a, b) == IF a >= b THEN a ELSE b
Min(a, b) == IF a <= b THEN a ELSE b

\* element j (Python index) of the full linear convolution of a and v
convolve_full(a, v, j) ==
    LET lo == Max(0, j - (Len(v) - 1))
        hi == Min(Len(a) - 1, j)
    IN  RSum([t \in 1..(hi - lo + 1) |-> RMul(a[lo + t], v[j - (lo + t - 1) + 1])])

\* np.convolve(a, v, 'same'): the centred part of the full convolution, as
\* long as the longer of the two arguments
convolve_same(a, v) ==
    LET n1 == Max(Len(a), Len(v))
        n2 == Min(Len(a), Len(v))
    IN  [k \in 1..n1 |-> convolve_full(a, v, k - 1 + (n2 - 1) \div 2)]

\* apply_lsf(function, width, filename)
apply_lsf(function, width, filename) ==
    LET default == function = None /\ width = NoneInt /\ filename = None
        kernel == IF default
                  THEN IF instrument.lsf_kernel = None THEN NoArray
                       ELSE LSF(None, NoneInt, instrument.lsf_kernel)
                  ELSE LSF(function, width, filename)
        ok == kernel # NoArray /\ flux_field # NoArray
    IN  /\ steps < MaxSteps
        /\ flux_field' = IF ok THEN convolve_same(kernel, flux_field) ELSE flux_field
        /\ last' = [op |-> "apply_lsf", ok |-> ok,
                    args |-> <<function, width, filename>>, out |-> kernel]
        /\ steps' = steps + 1
        /\ UNCHANGED <<instrument, lambda_bins, rng, files, snapshot, noise_log, probe, ms>>

----------------------------------------------------------------------------
(* Persistence.  The three writers belong to yt's AbsorptionSpectrum; each  *)
(* leaves a file of its format holding the wavelength and flux arrays.      *)

\* save_spectrum: which writer the (filename, format) pair selects
select_writer_by_suffix(filename, format) ==
    IF endswith(filename, DotH5) THEN "HDF5"
    ELSE IF endswith(filename, DotFits) THEN "FITS"
         ELSE "ASCII"

select_writer(filename, format) ==
    IF format = None
    THEN IF endswith(filename, DotH5) THEN "HDF5"
         ELSE IF endswith(filename, DotFits) THEN "FITS"
              ELSE "ASCII"
    ELSE IF format = "HDF5" THEN "HDF5"
    ELSE IF format = "FITS" THEN "FITS"
    ELSE "ASCII"

\* mylog.warn("Invalid format. ...")
format_warning(format) == format \notin {None, "HDF5", "FITS", "ASCII"}

\* save_spectrum(filename, format), on a generator that holds a spectrum
save_spectrum(filename, format) ==
    LET writer == select_writer(filename, format)
        written == [writer |-> writer, wavelength |-> lambda_bins, flux |-> flux_field]
    IN  /\ steps < MaxSteps
        /\ flux_field # NoArray
        /\ files' = [files EXCEPT ![filename] = written]
        /\ snapshot' = [snapshot EXCEPT ![filename] =
                           [writer |-> writer, wavelength |-> lambda_bins,
                            flux |-> flux_field]]
        /\ last' = [op |-> "save_spectrum", ok |-> TRUE,
                    args |-> <<filename, format>>,
                    out |-> <<writer, format_warning(format)>>]
        /\ steps' = steps + 1
        /\ UNCHANGED <<instrument, lambda_bins, flux_field, rng, noise_log, probe, ms>>

load_any_suffix(filename) ==
    LET ok == files[filename].writer # "absent"
    IN  /\ steps < MaxSteps
        /\ lambda_bins' = IF ok THEN files[filename].wavelength ELSE lambda_bins
        /\ flux_field' = IF ok THEN files[filename].flux ELSE flux_field
        /\ last' = [op |-> "load_spectrum", ok |-> ok, args |-> <<filename>>,
                    out |-> flux_field]
        /\ steps' = steps + 1
        /\ UNCHANGED <<instrument, rng, files, snapshot, noise_log, probe, ms>>

\* load_spectrum(filename): only ".h5" names are accepted, and h5py opens
\* only a file the HDF5 writer left; last.out keeps the flux it replaces
load_spectrum(filename) ==
    LET ok == endswith(filename, DotH5) /\ files[filename].writer = "HDF5"
    IN  /\ steps < MaxSteps
        /\ lambda_bins' = IF ok THEN files[filename].wavelength ELSE lambda_bins
        /\ flux_field' = IF ok THEN files[filename].flux ELSE flux_field
        /\ last' = [op |-> "load_spectrum", ok |-> ok, args |-> <<filename>>,
                    out |-> flux_field]
        /\ steps' = steps + 1
        /\ UNCHANGED <<instrument, rng, files, snapshot, noise_log, probe, ms>>

----------------------------------------------------------------------------------------------------------------------------------------------------
(* Inputs of the operations (bounded) *)

SNRs == {2}
BinCounts == {NoneInt, 2}
Seeds == {0, 42}
Redshifts == {Zero, One}
Targets == {NoArray} \cup CallerArrays
\* what the operating system may hand to an unseeded generator
Entropies == {1, 3}

\* every operation of the generator, in any order
Next ==
    \/ \E s \in {"COS", "bogus"} : set_instrument(Str(s))
    \/ \E i \in CustomInstruments : set_instrument(Obj(i))
    \/ make_flat_spectrum
    \/ \E arr \in Targets, z \in Redshifts : add_qso_spectrum(arr, z, None)
    \/ \E arr \in Targets : add_milky_way_foreground(arr, None)
    \/ \E snr \in SNRs, n_bins \in BinCounts, out \in Targets, seed \in Seeds :
           add_gaussian_noise(snr, n_bins, out, seed, rng)
    \/ \E snr \in SNRs, n_bins \in BinCounts, out \in Targets,
          entropy \in Entropies :
           add_gaussian_noise(snr, n_bins, out, NoneInt, entropy)
    \/ random_draw
    \/ apply_lsf(None, NoneInt, None)
    \/ \E f \in {"k1.txt", "avg_COS.txt"} : apply_lsf(None, NoneInt, f)
    \/ apply_lsf("boxcar", 3, None)
    \/ save_spectrum(<<"s", ".", "h", "5">>, None)
    \/ \E f \in {<<"s", ".", "h", "5">>, <<"o", ".", "h", "5">>} : load_spectrum(f)

Spec == Init /\ [][Next]_vars

\* the instrument configuration, with more arguments
InstrumentNames ==
    {"COS", "HIRES", "UVES", "MODS", "SDSS", "cos", "Cos", "COS ", "", "bogus"}

InstrumentNext ==
    \/ \E s \in InstrumentNames : set_instrument(Str(s))
    \/ \E i \in CustomInstruments : set_instrument(Obj(i))
    \/ \E x \in {"None", "42"} : set_instrument(Other(x))
    \/ make_flat_spectrum
    \/ load_spectrum(<<"o", ".", "h", "5">>)

SpecInstrument == Init /\ [][InstrumentNext]_vars

\* the persistence, with more filenames and formats
IONext ==
    \/ make_flat_spectrum
    \/ add_gaussian_noise(2, NoneInt, NoArray, 42, rng)
    \/ apply_lsf(None, NoneInt, "k3.txt")
    \/ \E f \in Filenames, fmt \in Formats : save_spectrum(f, fmt)
    \/ \E f \in Filenames : load_spectrum(f)

SpecIO == Init /\ [][IONext]_vars

----------------------------------------------------------------------------
(* The template routines on their own: one table, one redshift, one target  *)
(* wavelength, and one call.                                                *)

TableLambdas == {Rat(1799, 1), MW_limit, Rat(1800, 1), Rat(1801, 1)}
TableFluxes == {Zero, Rat(1, 2), One}

Rows == TableLambdas \X TableFluxes

\* the tables of 2..MaxRows rows whose wavelengths increase strictly
Tables ==
    UNION {{t \in [1..n -> Rows] : \A i \in 1..(n - 1) : RLt(t[i][1], t[i + 1][1])} :
           n \in 2..MaxRows}

ProbeRedshifts == {Zero, Rat(1, 2), One}

\* targets below, between, on and above the tabulated wavelengths, and the
\* same wavelengths as the shifted tables hold them
ProbeTargets ==
    LET base == TableLambdas \cup {Rat(1798, 1), Rat(3599, 2), Rat(1802, 1)}
    IN  {shift_lambda(w, z) : w \in base, z \in ProbeRedshifts}

InitTemplate ==
    /\ __init__(Other(None), NoRange)
    /\ rng = 0
    /\ files = InitialFiles
    /\ snapshot = InitialFiles
    /\ noise_log = {}
    /\ last = Started
    /\ steps = 0
    /\ \E data \in Tables, z \in ProbeRedshifts, w \in ProbeTargets :
          probe = [fn |-> "none", data |-> data, redshift |-> z, w |-> w,
                   index |-> 0, value |-> Zero]
    /\ ms = NoCall

call_get_qso_spectrum ==
    /\ probe.fn = "none"
    /\ probe' = [probe EXCEPT
                   !.fn = "qso",
                   !.index = template_index(template_lambda(probe.data, probe.redshift),
                                            probe.w),
                   !.value = _get_qso_spectrum(probe.data, probe.redshift, probe.w)]
    /\ UNCHANGED <<instrument, lambda_bins, flux_field, rng, files, snapshot,
                   noise_log, last, steps, ms>>

call_get_milky_way_foreground ==
    /\ probe.fn = "none"
    /\ probe' = [probe EXCEPT
                   !.fn = "mw",
                   !.redshift = Zero,
                   !.index = template_index(template_lambda(probe.data, Zero), probe.w),
                   !.value = _get_milky_way_foreground(probe.data, probe.w)]
    /\ UNCHANGED <<instrument, lambda_bins, flux_field, rng, files, snapshot,
                   noise_log, last, steps, ms>>

TemplateNext == call_get_qso_spectrum \/ call_get_milky_way_foreground

SpecTemplate == InitTemplate /\ [][TemplateNext]_vars

----------------------------------------------------------------------------
(* make_spectrum: the loop over the selected lines that derives the missing *)
(* ion fields, then the deposition.  A field name is its sequence of        *)
(* characters, parsed as the code parses it.                                *)

\* str.find(sub): the lowest Python index where sub starts, -1 if nowhere
find(s, sub) ==
    LET hits == {i \in 0..(Len(s) - Len(sub)) : SubSeq(s, i + 1, i + Len(sub)) = sub}
    IN  IF hits = {} THEN -1 ELSE CHOOSE i \in hits : \A j \in hits : i <= j

\* s[:k], a negative k counting from the end
slice_to(s, k) ==
    IF k >= 0 THEN SubSeq(s, 1, Min(k, Len(s)))
    ELSE SubSeq(s, 1, Max(Len(s) + k, 0))

\* s[k:] for k >= 0
slice_from(s, k) == SubSeq(s, k + 1, Len(s))

\* str.split(sep) for a one-character separator
RECURSIVE split(_, _)
split(s, sep) ==
    LET hits == {i \in 1..Len(s) : s[i] = sep}
        i == CHOOSE h \in hits : \A j \in hits : h <= j
    IN  IF hits = {} THEN <<s>>
        ELSE <<SubSeq(s, 1, i - 1)>> \o split(SubSeq(s, i + 1, Len(s)), sep)

DigitChars == <<"0", "1", "2", "3", "4", "5", "6", "7", "8", "9">>

is_digit(c) == \E d \in 1..Len(DigitChars) : DigitChars[d] = c

digit_value(c) == (CHOOSE d \in 1..Len(DigitChars) : DigitChars[d] = c) - 1

\* int(s) returns for a non-empty string of decimal digits, else ValueError
int_accepts(s) == s # <<>> /\ \A i \in 1..Len(s) : is_digit(s[i])

RECURSIVE int(_)
int(s) ==
    IF s = <<>> THEN 0
    ELSE int(SubSeq(s, 1, Len(s) - 1)) * 10 + digit_value(s[Len(s)])

\* "%d" % n for n >= 0
RECURSIVE str(_)
str(n) ==
    IF n < 10 THEN <<DigitChars[n + 1]>>
    ELSE str(n \div 10) \o <<DigitChars[(n % 10) + 1]>>

NumberDensity ==
    <<"n", "u", "m", "b", "e", "r", "_", "d", "e", "n", "s", "i", "t", "y">>

\* my_ion = line.field[:line.field.find("number_density")]
\* on_ion = my_ion.split("_")
parse_on_ion(field) == split(slice_to(field, find(field, NumberDensity)), "_")

\* what the parsing raises, None when it returns
parse_error(field) ==
    LET on_ion == parse_on_ion(field)
    IN  IF Len(on_ion) < 2 THEN "IndexError"
        ELSE IF on_ion[2] # <<>> /\ ~int_accepts(slice_from(on_ion[2], 1))
             THEN "ValueError"
             ELSE None

\* if on_ion[1]: my_lev = int(on_ion[1][1:]) + 1  else: my_lev = 1
parse_my_lev(on_ion) ==
    IF on_ion[2] # <<>> THEN int(slice_from(on_ion[2], 1)) + 1 ELSE 1

\* the field add_ion_number_density_field derives for (element, level), by
\* the convention <element>_<ionstate-code>_number_density
ion_field(element, level) ==
    element \o <<"_", "p">> \o str(level - 1) \o <<"_">> \o NumberDensity

H_field == <<"H", "_">> \o NumberDensity
O_p5_field == <<"O", "_", "p", "5", "_">> \o NumberDensity
Fe_p13_field == <<"F", "e", "_", "p", "1", "3", "_">> \o NumberDensity
O_VI_field == <<"O", "_", "V", "I", "_">> \o NumberDensity

\* the lines of the database that a caller may select; two share a field,
\* the last one carries a field name given by hand
Lines ==
    {[identifier |-> "Ly a", field |-> H_field, element |-> "H"],
     [identifier |-> "Ly b", field |-> H_field, element |-> "H"],
     [identifier |-> "O VI 1032", field |-> O_p5_field, element |-> "O"],
     [identifier |-> "Fe XIV 334", field |-> Fe_p13_field, element |-> "Fe"],
     [identifier |-> "O VI custom", field |-> O_VI_field, element |-> "O"]}

LineFields == {l.field : l \in Lines}

\* line_database.parse_subset(lines): an ordered selection without duplicates
LineLists ==
    UNION {{q \in [1..n -> Lines] : \A i, j \in 1..n : i # j => q[i] # q[j]} :
           n \in 1..MaxLines}

\* the calls make_spectrum makes, in order
IonCall(k, element, level) ==
    [fn |-> "add_ion_number_density_field", line |-> k, element |-> element,
     level |-> level]
LineCall(k) == [fn |-> "add_line", line |-> k, element |-> <<>>, level |-> 0]

\* a generator and a dataset: the fields whose lookup succeeds, and the
\* fields that derived_field_list names although their lookup raises
InitLines ==
    /\ \E i \in {c \in CustomInstruments : c.n_lambda = 2} : __init__(Obj(i), NoRange)
    /\ rng = 0
    /\ files = InitialFiles
    /\ snapshot = InitialFiles
    /\ noise_log = {}
    /\ last = Started
    /\ steps = 0
    /\ probe = NoProbe
    /\ \E known \in SUBSET LineFields :
          \E listed \in SUBSET (LineFields \ known) :
             ms = [NoCall EXCEPT !.fields = known,
                                 !.derived_field_list = known \cup listed]

\* make_spectrum, up to the loop: active_lines = parse_subset(lines)
make_spectrum_begin(active_lines) ==
    /\ ms.status = "idle"
    /\ ms' = [ms EXCEPT !.status = "loop", !.active_lines = active_lines, !.pos = 1]
    /\ UNCHANGED <<instrument, lambda_bins, flux_field, rng, files, snapshot,
                   noise_log, last, steps, probe>>

\* one iteration of `for line in active_lines`
make_spectrum_line ==
    /\ ms.status = "loop"
    /\ ms.pos <= Len(ms.active_lines)
    /\ LET line == ms.active_lines[ms.pos]
           found == line.field \in ms.fields
           parses == ~found /\ line.field \notin ms.derived_field_list
           raised == IF found THEN None
                     ELSE IF parses THEN parse_error(line.field)
                     ELSE IF ms.on_ion = <<>> THEN "NameError"
                     ELSE None
           on_ion == IF parses /\ raised # "IndexError"
                     THEN parse_on_ion(line.field) ELSE ms.on_ion
           my_lev == IF parses /\ raised = None
                     THEN parse_my_lev(on_ion) ELSE ms.my_lev
           failed == IF found THEN ms.failed ELSE ms.failed \cup {ms.pos}
       IN  IF raised # None
           THEN ms' = [ms EXCEPT !.status = "raised", !.error = raised,
                                 !.on_ion = on_ion, !.failed = failed]
           ELSE IF found
           THEN ms' = [ms EXCEPT !.pos = ms.pos + 1,
                                 !.calls = Append(ms.calls, LineCall(ms.pos))]
           ELSE ms' = [ms EXCEPT
                         !.pos = ms.pos + 1,
                         !.on_ion = on_ion,
                         !.my_lev = my_lev,
                         !.failed = failed,
                         !.fields = ms.fields \cup {ion_field(on_ion[1], my_lev)},
                         !.derived_field_list =
                             ms.derived_field_list \cup {ion_field(on_ion[1], my_lev)},
                         !.calls = ms.calls \o <<IonCall(ms.pos, on_ion[1], my_lev),
                                                 LineCall(ms.pos)>>]
    /\ UNCHANGED <<instrument, lambda_bins, flux_field, rng, files, snapshot,
                   noise_log, last, steps, probe>>

\* the flux the deposition may return: exp(-tau) of some optical depth
DepositedFluxes == [1..lambda_bins.num -> {Rat(1, 2), One}]

\* AbsorptionSpectrum.make_spectrum after the loop: the deposition fails if
\* a registered field cannot be read, else it fills flux_field over the grid
make_spectrum_deposit ==
    /\ ms.status = "loop"
    /\ ms.pos > Len(ms.active_lines)
    /\ LET ok == \A k \in 1..Len(ms.active_lines) :
                    ms.active_lines[k].field \in ms.fields
       IN  /\ ms' = [ms EXCEPT !.status = IF ok THEN "done" ELSE "raised",
                               !.error = IF ok THEN None ELSE "DatasetError"]
           /\ \E flux \in DepositedFluxes :
                 flux_field' = IF ok THEN flux ELSE flux_field
    /\ UNCHANGED <<instrument, lambda_bins, rng, files, snapshot, noise_log,
                   last, steps, probe>>

LinesNext ==
    \/ \E active_lines \in LineLists : make_spectrum_begin(active_lines)
    \/ make_spectrum_line
    \/ make_spectrum_deposit

SpecLines == InitLines /\ [][LinesNext]_vars

----------------------------------------------------------------------------
(* Properties *)

Stepped == steps' = steps + 1

\* C1: after every pipeline stage the flux field is as long as the wavelength
\* grid: len(flux_field) == len(lambda_bins), apply_lsf included whatever the
\* length of its kernel.
C1_FluxLengthMatchesBins ==
    flux_field # NoArray => Len(flux_field) = lambda_bins.num

\* C2: every successful set_instrument, in the constructor or later, makes
\* the generator's grid (start, stop and number of lambda_bins) the grid of
\* the selected instrument; the default LSF is the instrument's lsf_kernel.
C2_GridIsInstrumentGrid ==
    (last.op \in {"__init__", "set_instrument"} /\ last.ok)
        => lambda_bins = linspace(instrument.lambda_min, instrument.lambda_max,
                                  instrument.n_lambda)

PresetNames == {"COS", "HIRES", "UVES", "MODS", "SDSS"}

\* C3: set_instrument fails for every string that is not exactly one of the
\* preset names and for every argument that is neither a string nor an
\* Instrument; the instrument and the wavelength grid are then unchanged.
C3_BadInstrumentRejected ==
    [][(Stepped /\ last'.op = "set_instrument"
        /\ \/ last'.args.type = "other"
           \/ last'.args.type = "str" /\ last'.args.value \notin PresetNames)
       => (~last'.ok /\ instrument' = instrument /\ lambda_bins' = lambda_bins)]_vars

C3_Witness ==
    /\ last.op = "set_instrument"
    /\ last.args.type = "str"
    /\ last.args.value = "cos"
    /\ ~last.ok
    /\ instrument.name = "Custom"

ProbeLambda == template_lambda(probe.data, probe.redshift)

C6_OneFromLimit ==
    (probe.fn = "mw" /\ RLe(MW_limit, probe.w)) => probe.value = One

\* C6 amended: the Milky-Way curve is exactly 1.0 for every target wavelength
\* strictly above 1799.9444; at the bound itself it is the interpolated value.
C6_OneAboveLimit ==
    /\ (probe.fn = "mw" /\ RLt(MW_limit, probe.w)) => probe.value = One
    /\ (probe.fn = "mw" /\ probe.w = MW_limit)
          => probe.value = interpolate(ProbeLambda, template_flux(probe.data),
                                       probe.index, probe.w)

C6_Witness ==
    /\ probe.fn = "mw"
    /\ RLt(MW_limit, probe.w)
    /\ interpolate(ProbeLambda, template_flux(probe.data), probe.index, probe.w) # One
    /\ probe.value = One

\* C7: with a seed, add_gaussian_noise is a function of (seed, snr, n_bins)
\* and the input array: two calls that agree on them return the same array,
\* whatever was drawn before each of them.
C7_SeededNoiseReproducible ==
    \A a, b \in noise_log :
        (a.seed = b.seed /\ a.snr = b.snr /\ a.n_bins = b.n_bins /\ a.input = b.input)
            => a.output = b.output

C7_Witness ==
    \E a, b \in noise_log :
        /\ a.seed = b.seed /\ a.snr = b.snr /\ a.n_bins = b.n_bins
        /\ a.input = b.input
        /\ a.before # b.before
        /\ a.output # a.input

\* C8: add_gaussian_noise changes nothing but its target array: the grid, the
\* instrument, the flux field when a separate out array is passed, and the
\* state of the process-wide random generator are as before the call.
C8_NoiseTouchesOnlyTarget ==
    [][(Stepped /\ last'.op = "add_gaussian_noise")
       => /\ lambda_bins' = lambda_bins
          /\ instrument' = instrument
          /\ (last'.args[3] # NoArray => flux_field' = flux_field)
          /\ rng' = rng]_vars

C10_WriterSelection ==
    [][(Stepped /\ last'.op = "save_spectrum")
       => LET f == last'.args[1]
              fmt == last'.args[2]
              writer == last'.out[1]
              warned == last'.out[2]
          IN  /\ last'.ok
              /\ files'[f].writer = writer
              /\ \A g \in Filenames \ {f} : files'[g] = files[g]
              /\ fmt = None =>
                    /\ ~warned
                    /\ endswith(f, DotH5) => writer = "HDF5"
                    /\ (~endswith(f, DotH5) /\ endswith(f, DotFits)) => writer = "FITS"
                    /\ (~endswith(f, DotH5) /\ ~endswith(f, DotFits)) => writer = "ASCII"
              /\ fmt \in {"HDF5", "FITS", "ASCII"} => (writer = fmt /\ ~warned)
              /\ fmt \notin {None, "HDF5", "FITS", "ASCII"}
                    => (writer = "ASCII" /\ warned)]_vars

C10_Witness ==
    /\ last.op = "save_spectrum"
    /\ last.args[2] = "hdf5"
    /\ endswith(last.args[1], DotH5)
    /\ last.out[1] = "ASCII"
    /\ last.out[2]
    /\ files[last.args[1]].writer = "ASCII"

\* C11: in make_spectrum's loop, every call of add_ion_number_density_field
\* is made for a line whose field lookup failed and carries the element and
\* the ionization level parsed from that same line's field name (level = the
\* integer after the first character of the ion-state code, plus 1; level 1
\* when the code is empty), never values left by an earlier line, also when
\* the field is in derived_field_list; and every such line that is registered
\* with add_line had its call before.
C11_IonFieldFromOwnLine ==
    /\ \A c \in 1..Len(ms.calls) :
          ms.calls[c].fn = "add_ion_number_density_field"
             => LET field == ms.active_lines[ms.calls[c].line].field
                IN  /\ ms.calls[c].line \in ms.failed
                    /\ parse_error(field) = None
                    /\ ms.calls[c].element = parse_on_ion(field)[1]
                    /\ ms.calls[c].level = parse_my_lev(parse_on_ion(field))
    /\ \A c \in 1..Len(ms.calls) :
          (ms.calls[c].fn = "add_line" /\ ms.calls[c].line \in ms.failed)
             => \E b \in 1..(c - 1) :
                   /\ ms.calls[b].fn = "add_ion_number_density_field"
                   /\ ms.calls[b].line = ms.calls[c].line
====
